---- MODULE Spec2Model ----
(***************************************************************************)
(* Active perception camera system: the MONITOR/EXPLORE controller of      *)
(* src/src/loop.py, the exposure policy of src/src/policy.py and the       *)
(* uncertainty engine and smoother of src/src/uncertainty.py.              *)
(*                                                                         *)
(* Float scores are fixed-point integers: Scale units are the score 1.0.   *)
(* Every raw score the model's inputs produce is a multiple of 60 units,   *)
(* so the mean of a window of 1..5 of them is an integer and the division  *)
(* of TemporalSmoother.update is exact.  Brightness is an integer gray     *)
(* level; the 10 % threshold is compared in hundredths of a gray level.    *)
(***************************************************************************)
EXTENDS Integers, Sequences, FiniteSets, TLC

VARIABLES
    pc,                    \* position of run(): "loop", "finally", "done", "raised"; "api" for a direct method call
    exit_reason,           \* why the while loop of run() was left
    raised,                \* the exception that escaped the latest tick or call ("none" if none)
    steps,                 \* the stages of the loop body executed in the latest tick
    released,              \* camera.release() has been called
    state,                 \* self.state
    current_exposure_idx,  \* self.current_exposure_idx
    exploration_results,   \* self.exploration_results, a function from indices to scores
    explore_step,          \* self.explore_step
    baseline_brightness,   \* self.baseline_brightness: None or Some(b)
    frame_count,           \* self.frame_count
    ignore_until_frame,    \* self.ignore_until_frame
    history,               \* TemporalSmoother.history
    exposure_supported,    \* policy.exposure_supported
    commands,              \* every camera.set_property issued by execute_exposure, oldest first
    sensed_brightness,     \* current_brightness of run(): np.mean(frame) of the latest frame, None before
    detections,            \* number of frames so far in which the detector found a marker
    calls                  \* the methods called directly on the object, with their argument

vars == <<pc, exit_reason, raised, steps, released, state, current_exposure_idx,
          exploration_results, explore_step, baseline_brightness, frame_count,
          ignore_until_frame, history, exposure_supported, commands,
          sensed_brightness, detections, calls>>

(***************************************************************************)
(* Bounds of the model.                                                    *)
(***************************************************************************)
MaxFrames == 20       \* ticks of run() that are explored
MaxDetections == 1    \* frames with a detected marker among them
MaxKeys == 3          \* indices a directly resolved ledger may hold
MaxOver == 2          \* how far outside 0..N-1 a directly applied index may lie
MaxCalls == 2         \* direct calls of one method that are explored
MaxUpdates == 7       \* direct calls of TemporalSmoother.update that are explored

(***************************************************************************)
(* Values.                                                                 *)
(***************************************************************************)
Scale == 6000
None == <<>>
Some(x) == <<x>>

Max(a, b) == IF a >= b THEN a ELSE b
Min(a, b) == IF a <= b THEN a ELSE b
Abs(x) == IF x < 0 THEN -x ELSE x

(***************************************************************************)
(* policy.py                                                               *)
(***************************************************************************)
exposure_levels == <<-8, -7, -6, -5, -4, -3, -2>>
N == Len(exposure_levels)

\* The startup probe: read, set a differing value, read back.
CheckExposureSupport(initial_val, hw_accepts) ==
    LET test_val == IF initial_val = -6 THEN -5 ELSE -6
        new_val == IF hw_accepts THEN test_val ELSE initial_val
    IN new_val # initial_val

\* idx = max(0, min(level_idx, len(self.exposure_levels) - 1))
ClampNone(level_idx) == level_idx
ClampUpperOnly(level_idx) == IF level_idx <= Len(exposure_levels) - 1 THEN level_idx
                             ELSE Len(exposure_levels) - 1
ClampIdx(level_idx) == Max(0, Min(level_idx, N - 1))

\* Python's list[i]: negative indices count from the end, anything else
\* outside the list raises IndexError.
PyIndex(list, i) ==
    IF 0 <= i /\ i < Len(list) THEN [raised |-> "none", val |-> list[i + 1]]
    ELSE IF -Len(list) <= i /\ i < 0 THEN [raised |-> "none", val |-> list[Len(list) + i + 1]]
    ELSE [raised |-> "IndexError", val |-> 0]

\* execute_exposure(level_idx): the exception it raises and the
\* set_property commands it issues.
ExecuteExposure(level_idx) ==
    LET idx == ClampIdx(level_idx)
        got == PyIndex(exposure_levels, idx)
    IN IF got.raised # "none"
       THEN [raised |-> got.raised, cmds |-> <<>>]
       ELSE [raised |-> "none",
             cmds |-> <<[level_idx |-> level_idx, idx |-> idx, val |-> got.val]>>]

(***************************************************************************)
(* uncertainty.py                                                          *)
(***************************************************************************)
s_low == 20
s_high == 300
a_low == 800
a_high == 100000
window_size == 5

\* _compute_sharpness: 0.0 for a null frame, else the Laplacian variance,
\* which the frame carries as its sharpness.
ComputeSharpness(frame) == IF frame = None THEN 0 ELSE frame[1].sharpness

\* _normalize(value, low, high), in Scale units of quality.
NormalizeNoUpperClamp(value, low, high) ==
    IF value <= low THEN 0 ELSE ((value - low) * Scale) \div (high - low)
Normalize(value, low, high) ==
    IF value <= low THEN 0
    ELSE IF value >= high THEN Scale
    ELSE ((value - low) * Scale) \div (high - low)

\* Step 3 of compute: 0.9 when nothing was detected, else the floor 0.1 plus
\* the penalties for blur and for size, up to 0.4 each.
ScoreOfNoFloor(detected, q_sharpness, q_size) ==
    IF ~detected THEN (9 * Scale) \div 10
    ELSE ((Scale - q_sharpness) * 4) \div 10 + ((Scale - q_size) * 4) \div 10
ScoreOfNoBranch(detected, q_sharpness, q_size) ==
    Scale \div 10 + ((Scale - q_sharpness) * 4) \div 10 + ((Scale - q_size) * 4) \div 10
ScoreOf(detected, q_sharpness, q_size) ==
    IF ~detected THEN (9 * Scale) \div 10
    ELSE LET penalty_blur == ((Scale - q_sharpness) * 4) \div 10
             penalty_size == ((Scale - q_size) * 4) \div 10
         IN Scale \div 10 + penalty_blur + penalty_size

\* compute(frame, corners): corners is the sequence of the markers' contour
\* areas (None or empty when nothing was detected).
Compute(frame, corners) ==
    LET sharpness_val == ComputeSharpness(frame)
        detected == corners # None /\ Len(corners) > 0
        area_val == IF detected THEN corners[1] ELSE 0
        q_sharpness == Normalize(sharpness_val, s_low, s_high)
        q_size == Normalize(area_val, a_low, a_high)
        score == ScoreOf(detected, q_sharpness, q_size)
    IN [score |-> Max(0, Min(Scale, score)),
        detected |-> detected,
        sharpness_raw |-> sharpness_val,
        size_raw |-> area_val,
        q_sharpness |-> q_sharpness,
        q_size |-> q_size]

RECURSIVE SumSeq(_)
SumSeq(s) == IF s = <<>> THEN 0 ELSE Head(s) + SumSeq(Tail(s))

\* deque(maxlen=window_size).append(new_value)
HistoryAppendEvictNewest(h, new_value) ==
    IF Len(h) >= window_size THEN Append(SubSeq(h, 1, Len(h) - 1), new_value)
    ELSE Append(h, new_value)
HistoryAppend(h, new_value) ==
    IF Len(h) >= window_size THEN Append(Tail(h), new_value) ELSE Append(h, new_value)

\* sum(self.history) / len(self.history)
Mean(h) == SumSeq(h) \div Len(h)

(***************************************************************************)
(* loop.py: the controller.  A controller value ctl is the record of the   *)
(* fields the state machine owns, plus what one call of it issued: cmds,   *)
(* the commands, and raised, the exception that ended it early.            *)
(***************************************************************************)
TRIGGER_THRESHOLD == (6 * Scale) \div 10
brightness_change_ratio_pct == 10
brightness_floor == 5
settling_frames == 10
initial_exposure_idx == 2
Epsilon == Scale \div 100

EmptyLedger == [k \in {} |-> 0]

\* dict[key] = value
DictSetNextKey(d, key, value) ==
    [k \in DOMAIN d \cup {key + 1} |-> IF k = key + 1 THEN value ELSE d[k]]
DictSet(d, key, value) ==
    [k \in DOMAIN d \cup {key} |-> IF k = key THEN value ELSE d[k]]

\* diff > max(baseline * ratio, 5.0), both sides in hundredths of a gray level
EnvChangedInclusive(baseline, current_brightness) ==
    Abs(current_brightness - baseline) * 100
        >= Max(baseline * brightness_change_ratio_pct, brightness_floor * 100)
EnvChangedAlways(baseline, current_brightness) == TRUE
EnvChanged(baseline, current_brightness) ==
    LET diff == Abs(current_brightness - baseline)
        dynamic_threshold == Max(baseline * brightness_change_ratio_pct, brightness_floor * 100)
    IN diff * 100 > dynamic_threshold

\* if uncertainty > TRIGGER_THRESHOLD: if env_changed:
TriggerEither(uncertainty, env_changed) == uncertainty > TRIGGER_THRESHOLD \/ env_changed
TriggerNoEnv(uncertainty, env_changed) == uncertainty > TRIGGER_THRESHOLD
Trigger(uncertainty, env_changed) == uncertainty > TRIGGER_THRESHOLD /\ env_changed

\* if self.frame_count < self.ignore_until_frame: return
GatedNever(fc, ignore_until) == FALSE
Gated(fc, ignore_until) == fc < ignore_until

\* if self.explore_step >= len(self.policy.exposure_levels)
SweepDoneEarly(step) == step >= N - 1
SweepDoneLate(step) == step > N
SweepDone(step) == step >= N

\* min(self.exploration_results.values())
MinScore(ledger) ==
    CHOOSE m \in {ledger[k] : k \in DOMAIN ledger} : \A k \in DOMAIN ledger : m <= ledger[k]

\* candidates = [idx for idx, score in items if abs(score - min_score) < 0.01]
Candidates(ledger) ==
    {idx \in DOMAIN ledger : Abs(ledger[idx] - MinScore(ledger)) < Epsilon}

SetMax(S) == CHOOSE x \in S : \A y \in S : y <= x

\* best_idx = max(candidates)
BestIdxLowest(ledger) ==
    CHOOSE x \in Candidates(ledger) : \A y \in Candidates(ledger) : x <= y
BestIdxPlusOne(ledger) == SetMax(Candidates(ledger)) + 1
BestIdx(ledger) == SetMax(Candidates(ledger))

\* _apply_best_action()
ApplyBestActionKeepIdx(ctl, fc) ==
    IF DOMAIN ctl.exploration_results = {} THEN ctl
    ELSE LET ex == ExecuteExposure(BestIdx(ctl.exploration_results))
         IN IF ex.raised # "none" THEN [ctl EXCEPT !.raised = ex.raised]
            ELSE [ctl EXCEPT !.cmds = @ \o ex.cmds,
                             !.baseline_brightness = None,
                             !.ignore_until_frame = fc + settling_frames]
ApplyBestAction(ctl, fc) ==
    IF DOMAIN ctl.exploration_results = {} THEN ctl
    ELSE LET best_idx == BestIdx(ctl.exploration_results)
             ex == ExecuteExposure(best_idx)
         IN IF ex.raised # "none" THEN [ctl EXCEPT !.raised = ex.raised]
            ELSE [ctl EXCEPT !.cmds = @ \o ex.cmds,
                             !.current_exposure_idx = best_idx,
                             !.baseline_brightness = None,
                             !.ignore_until_frame = fc + settling_frames]

\* if self.baseline_brightness is None: self.baseline_brightness = current_brightness
CaptureBaselineAlways(baseline, current_brightness) == Some(current_brightness)
CaptureBaseline(baseline, current_brightness) ==
    IF baseline = None THEN Some(current_brightness) ELSE baseline

\* The assignments of a trigger: state, explore_step, exploration_results,
\* baseline_brightness.
StartExploreWithCommand(ctl) ==
    [ctl EXCEPT !.state = "EXPLORE",
                !.explore_step = 0,
                !.exploration_results = EmptyLedger,
                !.baseline_brightness = None,
                !.cmds = @ \o ExecuteExposure(0).cmds]
StartExplore(ctl) ==
    [ctl EXCEPT !.state = "EXPLORE",
                !.explore_step = 0,
                !.exploration_results = EmptyLedger,
                !.baseline_brightness = None]

\* _update_state_machine(uncertainty, current_brightness), with
\* self.frame_count = fc
UpdateStateMachine(ctl, uncertainty, current_brightness, fc) ==
    IF ctl.state = "MONITOR" THEN
        IF Gated(fc, ctl.ignore_until_frame) THEN ctl
        ELSE LET baseline == CaptureBaseline(ctl.baseline_brightness, current_brightness)
                 env_changed == EnvChanged(baseline[1], current_brightness)
             IN IF Trigger(uncertainty, env_changed)
                THEN StartExplore(ctl)
                ELSE [ctl EXCEPT !.baseline_brightness = baseline]
    ELSE
        LET current_idx == ctl.explore_step
            c1 == [ctl EXCEPT !.exploration_results = DictSet(@, current_idx, uncertainty),
                              !.explore_step = @ + 1]
        IN IF SweepDone(c1.explore_step)
           THEN LET c2 == ApplyBestAction(c1, fc)
                IN IF c2.raised # "none" THEN c2 ELSE [c2 EXCEPT !.state = "MONITOR"]
           ELSE LET ex == ExecuteExposure(c1.explore_step)
                IN [c1 EXCEPT !.cmds = @ \o ex.cmds, !.raised = ex.raised]

\* The controller fields as a value, with nothing issued yet.
Ctl == [state |-> state,
        current_exposure_idx |-> current_exposure_idx,
        exploration_results |-> exploration_results,
        explore_step |-> explore_step,
        baseline_brightness |-> baseline_brightness,
        ignore_until_frame |-> ignore_until_frame,
        cmds |-> <<>>,
        raised |-> "none"]

\* The controller fields take the values of ctl; its commands reach the camera.
Store(ctl) ==
    /\ state' = ctl.state
    /\ current_exposure_idx' = ctl.current_exposure_idx
    /\ exploration_results' = ctl.exploration_results
    /\ explore_step' = ctl.explore_step
    /\ baseline_brightness' = ctl.baseline_brightness
    /\ ignore_until_frame' = ctl.ignore_until_frame
    /\ commands' = commands \o ctl.cmds

ControllerVars == <<state, current_exposure_idx, exploration_results, explore_step,
                    baseline_brightness, ignore_until_frame, commands>>

(***************************************************************************)
(* Inputs of a tick.                                                       *)
(***************************************************************************)
Brightnesses == {100, 110, 120}
Sharpnesses == {300}
Areas == {100000}
Frames == {Some([brightness |-> b, sharpness |-> s]) : b \in Brightnesses, s \in Sharpnesses}
CornerInputs == {None} \cup {<<a>> : a \in Areas}
Keys == {"q", "other"}

Stages == <<"read", "detect", "compute", "smooth", "state_machine", "display", "waitkey">>
RaisingStages == {"detect"}    \* the stages an exception is raised in

RECURSIVE StepsUpTo(_, _)
StepsUpTo(stage, k) ==
    IF k > Len(Stages) \/ Stages[k] = stage THEN SubSeq(Stages, 1, Min(k, Len(Stages)))
    ELSE StepsUpTo(stage, k + 1)

(***************************************************************************)
(* __init__                                                                *)
(***************************************************************************)
InitController(supported) ==
    /\ state = "MONITOR"
    /\ current_exposure_idx = initial_exposure_idx
    /\ exploration_results = EmptyLedger
    /\ explore_step = 0
    /\ baseline_brightness = None
    /\ frame_count = 0
    /\ ignore_until_frame = 0
    /\ history = <<>>
    /\ exposure_supported = supported
    /\ commands = IF supported THEN ExecuteExposure(initial_exposure_idx).cmds ELSE <<>>

Init ==
    /\ pc = "loop"
    /\ exit_reason = "none"
    /\ raised = "none"
    /\ steps = <<>>
    /\ released = FALSE
    /\ sensed_brightness = None
    /\ detections = 0
    /\ calls = <<>>
    /\ \E initial_val \in {-6, -4}, hw_accepts \in BOOLEAN :
          InitController(CheckExposureSupport(initial_val, hw_accepts))

(***************************************************************************)
(* run(): one iteration of the while loop is one action; the finally       *)
(* block is another.                                                       *)
(***************************************************************************)
\* Where control goes when the loop body is left: the try statement has a
\* finally block, so every exit passes through it.
ExitToNoFinally(reason) == IF reason = "exception" THEN "raised" ELSE "finally"
ExitTo(reason) == "finally"

Leave(reason, exc, done) ==
    /\ pc' = ExitTo(reason)
    /\ exit_reason' = reason
    /\ raised' = exc
    /\ steps' = done

\* ret, frame = self.camera.read(); if not ret: break
TickReadFailed ==
    /\ pc = "loop"
    /\ frame_count < MaxFrames
    /\ frame_count' = frame_count + 1
    /\ Leave("read_failed", "none", StepsUpTo("read", 1))
    /\ UNCHANGED <<released, ControllerVars, history, exposure_supported,
                   sensed_brightness, detections, calls>>

\* An exception raised by a stage that runs before the smoother: nothing but
\* the frame counter has changed.
TickRaises ==
    /\ pc = "loop"
    /\ frame_count < MaxFrames
    /\ frame_count' = frame_count + 1
    /\ \E stage \in RaisingStages : Leave("exception", "Exception", StepsUpTo(stage, 1))
    /\ UNCHANGED <<released, ControllerVars, history, exposure_supported,
                   sensed_brightness, detections, calls>>

\* The stages detect .. state machine of one iteration on a frame that was read.
Perceive(frame, corners) ==
    LET fc == frame_count + 1
        r == Compute(frame, corners)
        h == HistoryAppend(history, r.score)
        smooth_u == Mean(h)
        brightness == frame[1].brightness
    IN [detected |-> r.detected,
        brightness |-> brightness,
        raw_u |-> r.score,
        history |-> h,
        smooth_u |-> smooth_u,
        ctl |-> UpdateStateMachine(Ctl, smooth_u, brightness, fc)]

Update(p) ==
    /\ p.detected => detections < MaxDetections
    /\ detections' = IF p.detected THEN detections + 1 ELSE detections
    /\ frame_count' = frame_count + 1
    /\ history' = p.history
    /\ sensed_brightness' = Some(p.brightness)
    /\ Store(p.ctl)
    /\ UNCHANGED <<released, exposure_supported, calls>>

\* A whole iteration: the loop goes on, or ends on the key 'q'.  An
\* exception of the state machine ends it before the display stage.
Tick ==
    /\ pc = "loop"
    /\ frame_count < MaxFrames
    /\ \E frame \in Frames, corners \in CornerInputs, key \in Keys :
          LET p == Perceive(frame, corners)
          IN /\ Update(p)
             /\ IF p.ctl.raised # "none"
                THEN Leave("exception", p.ctl.raised, StepsUpTo("state_machine", 1))
                ELSE IF key = "q"
                THEN Leave("quit", "none", Stages)
                ELSE /\ steps' = Stages
                     /\ UNCHANGED <<pc, exit_reason, raised>>

\* finally: self.camera.release(); then the exception, if any, propagates.
Finally ==
    /\ pc = "finally"
    /\ released' = TRUE
    /\ pc' = IF exit_reason = "exception" THEN "raised" ELSE "done"
    /\ UNCHANGED <<exit_reason, raised, steps, ControllerVars, frame_count, history,
                   exposure_supported, sensed_brightness, detections, calls>>

Next == Tick \/ TickReadFailed \/ TickRaises \/ Finally

Spec == Init /\ [][Next]_vars

(***************************************************************************)
(* _apply_best_action() called on an object whose ledger holds any scores  *)
(* for any of the first MaxKeys indices.                                   *)
(***************************************************************************)
LedgerScores == {3000, 3054, 3060, 3120}     \* 0.50, 0.509, 0.51, 0.52
Ledgers == UNION {[K -> LedgerScores] : K \in SUBSET (0 .. MaxKeys - 1)}

InitLedger ==
    /\ pc = "api"
    /\ exit_reason = "none"
    /\ raised = "none"
    /\ steps = <<>>
    /\ released = FALSE
    /\ sensed_brightness = None
    /\ detections = 0
    /\ calls = <<>>
    /\ state = "MONITOR"
    /\ current_exposure_idx = initial_exposure_idx
    /\ exploration_results \in Ledgers
    /\ explore_step = 0
    /\ baseline_brightness = None
    /\ frame_count \in 0 .. 1
    /\ ignore_until_frame = 0
    /\ history = <<>>
    /\ exposure_supported \in BOOLEAN
    /\ commands = IF exposure_supported THEN ExecuteExposure(initial_exposure_idx).cmds ELSE <<>>

CallApplyBestAction ==
    /\ pc = "api"
    /\ calls = <<>>
    /\ LET ctl == ApplyBestAction(Ctl, frame_count)
       IN /\ Store(ctl)
          /\ raised' = ctl.raised
          /\ pc' = IF ctl.raised # "none" THEN "raised" ELSE "returned"
    /\ calls' = <<[op |-> "_apply_best_action", arg |-> 0]>>
    /\ UNCHANGED <<exit_reason, steps, released, frame_count, history, exposure_supported,
                   sensed_brightness, detections>>

NextLedger == CallApplyBestAction

SpecLedger == InitLedger /\ [][NextLedger]_vars

(***************************************************************************)
(* execute_exposure(level_idx) called on a constructed policy with any     *)
(* index up to MaxOver outside the action space.                           *)
(***************************************************************************)
IndexInputs == (0 - MaxOver) .. (N - 1 + MaxOver)

InitPolicy ==
    /\ pc = "api"
    /\ exit_reason = "none"
    /\ raised = "none"
    /\ steps = <<>>
    /\ released = FALSE
    /\ sensed_brightness = None
    /\ detections = 0
    /\ calls = <<>>
    /\ \E initial_val \in {-6, -4}, hw_accepts \in BOOLEAN :
          InitController(CheckExposureSupport(initial_val, hw_accepts))

CallExecuteExposure ==
    /\ pc = "api"
    /\ Len(calls) < MaxCalls
    /\ \E level_idx \in IndexInputs :
          LET ex == ExecuteExposure(level_idx)
          IN /\ commands' = commands \o ex.cmds
             /\ raised' = ex.raised
             /\ pc' = IF ex.raised # "none" THEN "raised" ELSE "api"
             /\ calls' = Append(calls, [op |-> "execute_exposure", arg |-> level_idx])
    /\ UNCHANGED <<exit_reason, steps, released, state, current_exposure_idx,
                   exploration_results, explore_step, baseline_brightness, frame_count,
                   ignore_until_frame, history, exposure_supported, sensed_brightness,
                   detections>>

NextPolicy == CallExecuteExposure

SpecPolicy == InitPolicy /\ [][NextPolicy]_vars

(***************************************************************************)
(* compute(frame, corners) and _normalize(value, low, high) called on an   *)
(* UncertaintyEngine.  The values strictly between a pair of thresholds    *)
(* are those whose quality is a whole number of Scale units.               *)
(***************************************************************************)
EngineSharpnesses == {0, 10, 20, 27, 160, 300, 500}
EngineAreas == {0, 500, 800, 1048, 50400, 100000, 200000}
EngineFrames ==
    {None} \cup {Some([brightness |-> 100, sharpness |-> v]) : v \in EngineSharpnesses}
EngineCorners == {None, <<500, 100000>>} \cup {<<a>> : a \in EngineAreas}
NormalizeThresholds == {<<0, 10>>, <<s_low, s_high>>, <<a_low, a_high>>}
NormalizeValues == {5} \cup EngineSharpnesses \cup EngineAreas

CallCompute ==
    /\ pc = "api"
    /\ calls = <<>>
    /\ \E frame \in EngineFrames, corners \in EngineCorners :
          calls' = <<[op |-> "compute", arg |-> <<frame, corners>>,
                      ret |-> Compute(frame, corners)]>>
    /\ UNCHANGED <<pc, exit_reason, raised, steps, released, ControllerVars, frame_count,
                   history, exposure_supported, sensed_brightness, detections>>

CallNormalize ==
    /\ pc = "api"
    /\ Len(calls) < MaxCalls
    /\ \A j \in 1 .. Len(calls) : calls[j].op = "_normalize"
    /\ \E t \in NormalizeThresholds, value \in NormalizeValues :
          calls' = Append(calls, [op |-> "_normalize", arg |-> <<value, t[1], t[2]>>,
                                  ret |-> Normalize(value, t[1], t[2])])
    /\ UNCHANGED <<pc, exit_reason, raised, steps, released, ControllerVars, frame_count,
                   history, exposure_supported, sensed_brightness, detections>>

NextEngine == CallCompute \/ CallNormalize

SpecEngine == InitPolicy /\ [][NextEngine]_vars

(***************************************************************************)
(* TemporalSmoother.update(new_value) called on the smoother of a          *)
(* constructed object, up to MaxUpdates times.                             *)
(***************************************************************************)
SmootherValues == {600, 3000, 5400}     \* 0.1, 0.5, 0.9

CallUpdate ==
    /\ pc = "api"
    /\ Len(calls) < MaxUpdates
    /\ \A j \in 1 .. Len(calls) : calls[j].op = "update"
    /\ \E new_value \in SmootherValues :
          /\ history' = HistoryAppend(history, new_value)
          /\ calls' = Append(calls, [op |-> "update", arg |-> new_value,
                                    ret |-> Mean(history')])
    /\ UNCHANGED <<pc, exit_reason, raised, steps, released, ControllerVars, frame_count,
                   exposure_supported, sensed_brightness, detections>>

NextSmoother == CallUpdate

SpecSmoother == InitPolicy /\ [][NextSmoother]_vars

(***************************************************************************)
(* _update_state_machine(uncertainty, current_brightness) called on a      *)
(* constructed object with any smoothed uncertainty and brightness.        *)
(***************************************************************************)
MachineUncertainties == {3000, 3600, 3660, 5400}     \* 0.5, 0.6, 0.61, 0.9
MachineBrightnesses == {20, 25, 26, 100, 110, 111}

CallUpdateStateMachine ==
    /\ pc = "api"
    /\ Len(calls) < MaxCalls
    /\ \A j \in 1 .. Len(calls) : calls[j].op = "_update_state_machine"
    /\ \E uncertainty \in MachineUncertainties, current_brightness \in MachineBrightnesses :
          LET ctl == UpdateStateMachine(Ctl, uncertainty, current_brightness, frame_count)
          IN /\ Store(ctl)
             /\ raised' = ctl.raised
             /\ pc' = IF ctl.raised # "none" THEN "raised" ELSE "api"
             /\ calls' = Append(calls, [op |-> "_update_state_machine",
                                       arg |-> <<uncertainty, current_brightness>>])
    /\ UNCHANGED <<exit_reason, steps, released, frame_count, history, exposure_supported,
                   sensed_brightness, detections>>

NextMachine == CallUpdateStateMachine

SpecMachine == InitPolicy /\ [][NextMachine]_vars


(***************************************************************************)
(* The claims.                                                             *)
(***************************************************************************)
\* A step that runs the state machine once (the tick got past the read).
SmRan == frame_count' = frame_count + 1 /\ Len(steps') >= 5 /\ steps'[5] = "state_machine"

LastCommand == commands[Len(commands)]

C2_GateSkipsTenTicks ==
    [][/\ (state = "EXPLORE" /\ state' = "MONITOR") =>
             (ignore_until_frame' = frame_count' + 10 /\ baseline_brightness' = None)
       /\ (/\ state = "MONITOR"
           /\ ignore_until_frame > 0
           /\ SmRan
           /\ frame_count' <= ignore_until_frame) =>
             (state' = "MONITOR" /\ baseline_brightness' = None)]_vars

\* C3: whenever an episode resolves its winner, the ledger holds exactly the
\* seven keys 0..6.
C3_SevenEntriesAtResolve ==
    [][(state = "EXPLORE" /\ state' = "MONITOR") =>
         /\ DOMAIN exploration_results' = 0 .. 6
         /\ Cardinality(DOMAIN exploration_results') = 7]_vars

\* An episode has just resolved.
C3_Witness ==
    /\ state = "MONITOR"
    /\ frame_count > 0
    /\ ignore_until_frame = frame_count + 10
    /\ exploration_results # EmptyLedger

\* C4: on every EXPLORE tick the index under which the score is recorded is
\* the index of the action most recently commanded to the actuator (stated
\* where the actuator is supported, so that startup has commanded an action).
C4_RecordedIndexIsCommanded ==
    [][(exposure_supported /\ state = "EXPLORE" /\ SmRan) =>
         \A k \in DOMAIN exploration_results' \ DOMAIN exploration_results :
             commands # <<>> /\ LastCommand.idx = k]_vars

\* C7: when the probe reports the actuator unsupported, no actuator command
\* is ever issued.
C7_UnsupportedIssuesNothing == ~exposure_supported => commands = <<>>

\* C8: however the loop ends (failed read, stop key, exception), the camera
\* is released before run() is left, and the tick of a failed read runs no
\* stage after the read and changes nothing the later stages own.
C8_ReleasedOnEveryExit ==
    /\ [](/\ pc \in {"done", "raised"} => released
          /\ pc = "done" => exit_reason \in {"read_failed", "quit"}
          /\ pc = "raised" => exit_reason = "exception"
          /\ exit_reason # "none" => pc # "loop"
          /\ exit_reason = "read_failed" => steps = <<"read">>)
    /\ [][(exit_reason = "none" /\ exit_reason' = "read_failed") =>
            UNCHANGED <<ControllerVars, history, sensed_brightness>>]_vars

\* run() has ended by an exception, after the release.
C8_Witness == pc = "raised" /\ released /\ exit_reason = "exception" /\ frame_count > 1

(***************************************************************************)
(* Claims about _apply_best_action, under SpecLedger.                      *)
(***************************************************************************)
\* C5: for every non-empty ledger the winner is the largest index among
\* those whose score is less than 0.01 above the minimum score; the ledger
\* {0: 0.50, 1: 0.50, 2: 0.52} resolves to 1.
C5_WinnerIsLargestNearMinimum ==
    (pc = "returned" /\ DOMAIN exploration_results # {}) =>
        LET L == exploration_results
            IsMin(m) == (\E k \in DOMAIN L : L[k] = m) /\ (\A k \in DOMAIN L : m <= L[k])
            Near(k) == \E m \in LedgerScores : IsMin(m) /\ 100 * Abs(L[k] - m) < Scale
            w == current_exposure_idx
        IN /\ w \in DOMAIN L
           /\ Near(w)
           /\ \A k \in DOMAIN L : Near(k) => k <= w
           /\ LastCommand.level_idx = w
           /\ (L = (0 :> 3000 @@ 1 :> 3000 @@ 2 :> 3120) => w = 1)

\* The ledger {0: 0.50, 1: 0.509, 2: 0.51} has been resolved: 1 is near the
\* minimum and 2, at exactly 0.01 above it, is not.
C5_Witness ==
    /\ pc = "returned"
    /\ exploration_results = (0 :> 3000 @@ 1 :> 3054 @@ 2 :> 3060)
    /\ current_exposure_idx = 1

\* C6: resolving a ledger without entries fails with an EmptyLedger error
\* instead of returning normally.
C6_EmptyLedgerFails ==
    (calls # <<>> /\ DOMAIN exploration_results = {}) =>
        (raised = "EmptyLedger" /\ pc = "raised")

(***************************************************************************)
(* Claims about execute_exposure, under SpecPolicy.                        *)
(***************************************************************************)
InitialCommands == IF exposure_supported THEN 1 ELSE 0
LastCall == calls[Len(calls)]
OutOfRange(i) == i < 0 \/ i > 6

\* C9: applying an index below 0 or above N-1 reports an error and issues no
\* hardware command.
C9_OutOfRangeFails ==
    (calls # <<>> /\ OutOfRange(LastCall.arg)) =>
        /\ raised # "none"
        /\ Len(commands) < InitialCommands + Len(calls)

\* C9 as amended: applying an index below 0 or above N-1 reports no error
\* and issues exactly one hardware command, for the first setting when the
\* index is below 0 and for the last setting when it is above N-1.
C9_OutOfRangeIsClamped ==
    (calls # <<>> /\ OutOfRange(LastCall.arg)) =>
        /\ raised = "none"
        /\ pc = "api"
        /\ Len(commands) = InitialCommands + Len(calls)
        /\ LastCommand.level_idx = LastCall.arg
        /\ LastCommand.val = IF LastCall.arg < 0 THEN -8 ELSE -2

\* An index above the action space has been applied.
C9_Witness == calls # <<>> /\ LastCall.arg = 7 /\ LastCommand.level_idx = 7

\* C10: apply(i) commands the setting ActionSpace[max(0, min(i, N-1))] for
\* every integer i, so every commanded value is in the action space.
C10_CommandIsClampedSetting ==
    \A j \in 1 .. Len(commands) :
        LET c == commands[j]
            i == c.level_idx
            clamped == IF i < 0 THEN 0 ELSE IF i > 6 THEN 6 ELSE i
        IN /\ c.idx = clamped
           /\ c.val = exposure_levels[clamped + 1]
           /\ c.val \in {-8, -7, -6, -5, -4, -3, -2}

\* Two calls were made, one below and one above the action space.
C10_Witness ==
    /\ Len(calls) = 2
    /\ calls[1].arg = -2
    /\ calls[2].arg = 8
    /\ Len(commands) >= 2
    /\ LastCommand.val = -2

(***************************************************************************)
(* Claims about compute and _normalize, under SpecEngine.                  *)
(***************************************************************************)
\* q is the quality of value between low and high: 0 up to low, 1 from high,
\* and in proportion between.
QualityIs(q, value, low, high) ==
    \/ value <= low /\ q = 0
    \/ value >= high /\ q = Scale
    \/ low < value /\ value < high /\ q * (high - low) = (value - low) * Scale

ComputeCalls == {j \in 1 .. Len(calls) : calls[j].op = "compute"}
NormalizeCalls == {j \in 1 .. Len(calls) : calls[j].op = "_normalize"}
SharpnessOf(frame) == IF frame = <<>> THEN 0 ELSE frame[1].sharpness

\* C11: with a detection, score = 0.1 + 0.4*(1 - qualitySharpness) +
\* 0.4*(1 - qualitySize), so it lies in [0.1, 0.9]; it is 0.9 when sharpness
\* and area are at or below their low thresholds, 0.1 when both are at or
\* above their high thresholds; every score lies in [0, 1].  The qualities
\* are those compute reports in its metrics.
C11_DetectedScoreFormula ==
    \A j \in ComputeCalls :
        LET frame == calls[j].arg[1]
            corners == calls[j].arg[2]
            r == calls[j].ret
        IN /\ 0 <= r.score /\ r.score <= Scale
           /\ corners # <<>> =>
                LET qs == r.q_sharpness
                    qz == r.q_size
                IN  /\ QualityIs(qs, SharpnessOf(frame), 20, 300)
                    /\ QualityIs(qz, corners[1], 800, 100000)
                    /\ 10 * r.score = Scale + 4 * (Scale - qs) + 4 * (Scale - qz)
                    /\ Scale <= 10 * r.score /\ 10 * r.score <= 9 * Scale
                    /\ (SharpnessOf(frame) <= 20 /\ corners[1] <= 800) => 10 * r.score = 9 * Scale
                    /\ (SharpnessOf(frame) >= 300 /\ corners[1] >= 100000) => 10 * r.score = Scale

\* compute was given a half-sharp frame with a half-size marker: score 0.5.
C11_Witness ==
    /\ ComputeCalls # {}
    /\ calls[1].arg = <<Some([brightness |-> 100, sharpness |-> 160]), <<50400>>>>
    /\ 10 * calls[1].ret.score = 5 * Scale

\* C12: without a detection the score is exactly 0.9, whatever the sharpness.
C12_UndetectedScore ==
    \A j \in ComputeCalls :
        calls[j].arg[2] = <<>> => 10 * calls[j].ret.score = 9 * Scale

\* compute was given a perfectly sharp frame without a detection.
C12_Witness ==
    /\ ComputeCalls # {}
    /\ calls[1].arg = <<Some([brightness |-> 100, sharpness |-> 500]), <<>>>>
    /\ ~calls[1].ret.detected

\* C13: for low < high, quality is 0 up to low, 1 from high, (value - low) /
\* (high - low) strictly between, within [0, 1], and never decreases as the
\* value grows.
C13_QualityIsClampedLinear ==
    /\ \A j \in NormalizeCalls :
          LET a == calls[j].arg
              q == calls[j].ret
          IN /\ a[2] < a[3]
             /\ 0 <= q /\ q <= Scale
             /\ a[1] <= a[2] => q = 0
             /\ a[1] >= a[3] => q = Scale
             /\ (a[2] < a[1] /\ a[1] < a[3]) => q * (a[3] - a[2]) = (a[1] - a[2]) * Scale
    /\ \A j, k \in NormalizeCalls :
          (/\ calls[j].arg[2] = calls[k].arg[2]
           /\ calls[j].arg[3] = calls[k].arg[3]
           /\ calls[j].arg[1] <= calls[k].arg[1]) => calls[j].ret <= calls[k].ret

\* A value strictly between the thresholds and a value above them were
\* normalized against the same thresholds.
C13_Witness ==
    /\ Len(calls) = 2
    /\ calls[1] = [op |-> "_normalize", arg |-> <<160, 20, 300>>, ret |-> 3000]
    /\ calls[2].arg = <<500, 20, 300>>

\* C15: for a null frame compute raises nothing and returns the score 0.9,
\* whatever detection result comes with it, a non-empty one included.
C15_NullFrameIsUndetected ==
    \A j \in ComputeCalls :
        calls[j].arg[1] = <<>> => (raised = "none" /\ 10 * calls[j].ret.score = 9 * Scale)

(***************************************************************************)
(* Claims about TemporalSmoother, under SpecSmoother.                      *)
(***************************************************************************)
UpdateCalls == pc = "api" /\ calls # <<>> /\ \A j \in 1 .. Len(calls) : calls[j].op = "update"
SeqMin(w) == CHOOSE m \in {w[i] : i \in 1 .. Len(w)} : \A i \in 1 .. Len(w) : m <= w[i]
SeqMax(w) == CHOOSE m \in {w[i] : i \in 1 .. Len(w)} : \A i \in 1 .. Len(w) : m >= w[i]

MachineCall ==
    /\ Len(calls') = Len(calls) + 1
    /\ calls'[Len(calls')].op = "_update_state_machine"

C18_ResolveCommandsWinner ==
    /\ [][(SmRan /\ state = "EXPLORE" /\ explore_step + 1 >= 7) =>
            LET L == exploration_results'
                IsMin(m) == (\E k \in DOMAIN L : L[k] = m) /\ (\A k \in DOMAIN L : m <= L[k])
                Near(k) == \E j \in DOMAIN L : IsMin(L[j]) /\ 100 * Abs(L[k] - L[j]) < Scale
                w == current_exposure_idx'
            IN /\ w \in DOMAIN L
               /\ Near(w)
               /\ \A k \in DOMAIN L : Near(k) => k <= w
               /\ Len(commands') = Len(commands) + 1
               /\ SubSeq(commands', 1, Len(commands)) = commands
               /\ commands'[Len(commands')].val = exposure_levels[w + 1]
               /\ baseline_brightness' = None
               /\ state' = "MONITOR"]_vars
    /\ [](state = "MONITOR" /\ ignore_until_frame > 0 =>
            commands # <<>> /\ LastCommand.val = exposure_levels[current_exposure_idx + 1])

\* An episode has resolved to a winner other than the last index: the marker
\* was seen during the sweep, so the scores recorded last are the higher ones.
C18_Witness ==
    /\ state = "MONITOR"
    /\ ignore_until_frame = frame_count + 10
    /\ DOMAIN exploration_results = 0 .. 6
    /\ current_exposure_idx < 6
    /\ LastCommand.val = exposure_levels[current_exposure_idx + 1]

\* C19: an exploration episode is N consecutive EXPLORE ticks.  It starts at
\* explore step 0, every EXPLORE tick adds one to the explore step, each of
\* the first N-1 ticks issues exactly one command, for the index after the
\* one it recorded (1, 2, .., N-1 in turn), and stays in EXPLORE, and the
\* N-th tick ends in MONITOR; so EXPLORE is never held for more than N ticks.
C19_EpisodeIsNTicks ==
    /\ [][(state = "MONITOR" /\ state' = "EXPLORE") => explore_step' = 0]_vars
    /\ [](state = "EXPLORE" => (explore_step >= 0 /\ explore_step <= 6))
    /\ [][(state = "EXPLORE" /\ state' = "EXPLORE") =>
            (explore_step' = explore_step \/ SmRan)]_vars
    /\ [][(SmRan /\ state = "EXPLORE") =>
            /\ explore_step' = explore_step + 1
            /\ IF explore_step < 6
               THEN /\ state' = "EXPLORE"
                    /\ Len(commands') = Len(commands) + 1
                    /\ SubSeq(commands', 1, Len(commands)) = commands
                    /\ commands'[Len(commands')].val = exposure_levels[explore_step + 2]
               ELSE state' = "MONITOR"]_vars

\* A whole episode has run where startup commanded index 2: the six sweep
\* commands 1..6 follow the startup command, then the winner's.
C19_Witness ==
    /\ state = "MONITOR"
    /\ explore_step = 7
    /\ exposure_supported
    /\ Len(commands) = 8
    /\ \A i \in 1 .. 6 : commands[i + 1].val = exposure_levels[i + 1]

\* C20: a MONITOR tick whose frame count is below ignore_until_frame changes
\* nothing of the controller (state, baseline, ledger, explore step, current
\* action index, ignore_until_frame) and issues no command, and the
\* baseline it leaves alone is unset.
C20_GatedTickDoesNothing ==
    [][(SmRan /\ state = "MONITOR" /\ frame_count' < ignore_until_frame) =>
          /\ baseline_brightness = None
          /\ UNCHANGED ControllerVars]_vars

\* The last gated tick after an episode has run.
C20_Witness ==
    /\ pc = "loop"
    /\ state = "MONITOR"
    /\ ignore_until_frame > 0
    /\ frame_count = ignore_until_frame - 1
    /\ baseline_brightness = None

\* C21: in every state with state = EXPLORE the baseline is unset, the
\* explore step is in 0..N-1 and the ledger's keys are exactly the indices
\* below the explore step; and the baseline is unset right after every step
\* that starts or concludes an episode.
C21_ExploreStateShape ==
    /\ [](state = "EXPLORE" =>
            /\ baseline_brightness = None
            /\ 0 <= explore_step
            /\ explore_step < 7
            /\ DOMAIN exploration_results = {k \in 0 .. 6 : k < explore_step})
    /\ [][(state # state') => baseline_brightness' = None]_vars

\* A second episode has just started: the seven entries of the first are
\* gone from the ledger.
C21_Witness ==
    /\ state = "EXPLORE"
    /\ ignore_until_frame > 0
    /\ frame_count > ignore_until_frame
    /\ explore_step = 0
    /\ DOMAIN exploration_results = {}
    /\ baseline_brightness = None

\* C22: every index the controller hands to execute_exposure (the initial
\* index, the sweep indices, the winner) lies in 0..N-1, so the command
\* issued is the one for that very index, and the current action index lies
\* in 0..N-1 in every state.
C22_IndicesInRange ==
    /\ current_exposure_idx >= 0
    /\ current_exposure_idx <= 6
    /\ \A i \in 1 .. Len(commands) :
          /\ commands[i].level_idx >= 0
          /\ commands[i].level_idx <= 6
          /\ commands[i].idx = commands[i].level_idx
          /\ commands[i].val = exposure_levels[commands[i].level_idx + 1]

\* Startup, a whole sweep and a winner at the last index have all been
\* commanded.
C22_Witness ==
    /\ pc = "loop"
    /\ Len(commands) = 8
    /\ commands[1].level_idx = 2
    /\ commands[7].level_idx = 6
    /\ commands[8].level_idx = 6
    /\ current_exposure_idx = 6

\* C23: a tick that starts in MONITOR issues no command and changes neither
\* the current action index nor ignore_until_frame; the current action index
\* changes only on the tick that completes a sweep, not on the ticks that
\* command the indices 1..N-1.
C23_MonitorTickIssuesNothing ==
    [][/\ state = "MONITOR" =>
            UNCHANGED <<commands, current_exposure_idx, ignore_until_frame>>
       /\ (state = "EXPLORE" /\ state' = "EXPLORE") =>
            current_exposure_idx' = current_exposure_idx
       /\ current_exposure_idx' # current_exposure_idx =>
            (state = "EXPLORE" /\ explore_step = 6 /\ state' = "MONITOR")]_vars

\* A MONITOR tick has triggered an exploration where startup had commanded
\* index 2: that command is still the only one.
C23_Witness ==
    /\ pc = "loop"
    /\ state = "EXPLORE"
    /\ explore_step = 0
    /\ exposure_supported
    /\ Len(commands) = 1
    /\ current_exposure_idx = 2
    /\ ignore_until_frame = 0

\* C24: when an episode concludes on the tick of frame F (which sets
\* ignore_until_frame to F + 10), no tick of a frame up to F + 10 triggers an
\* exploration, whatever the inputs: a trigger comes only after the gate has
\* expired and an earlier tick has captured the baseline again.
C24_NoTriggerWithinGate ==
    /\ [][(state = "EXPLORE" /\ state' = "MONITOR") =>
            ignore_until_frame' = frame_count' + 10]_vars
    /\ [][(state = "MONITOR" /\ state' = "EXPLORE" /\ ignore_until_frame > 0) =>
            /\ frame_count' > ignore_until_frame
            /\ frame_count >= ignore_until_frame
            /\ baseline_brightness # None]_vars

\* The second exploration was triggered at the earliest frame possible, the
\* eleventh after the one that concluded the first.
C24_Witness ==
    /\ state = "EXPLORE"
    /\ explore_step = 0
    /\ ignore_until_frame > 0
    /\ frame_count = ignore_until_frame + 1
    /\ 10 * Mean(history) > 6 * Scale

\* C25: a baseline captured in MONITOR is not updated by later MONITOR
\* ticks: it keeps its value until a trigger unsets it.  So a tick whose
\* brightness equals that of the tick before it (the drift away from the
\* baseline happened earlier) still triggers when its smoothed uncertainty
\* is above 0.6 and its brightness is beyond the threshold from the baseline.
C25_BaselineIsKept ==
    [][(state = "MONITOR" /\ baseline_brightness # None) =>
          /\ state' = "MONITOR" => baseline_brightness' = baseline_brightness
          /\ state' # "MONITOR" => baseline_brightness' = None
          /\ (/\ SmRan
              /\ sensed_brightness' = sensed_brightness
              /\ 10 * Mean(history') > 6 * Scale
              /\ 10 * Abs(sensed_brightness'[1] - baseline_brightness[1])
                    > (IF baseline_brightness[1] > 50 THEN baseline_brightness[1] ELSE 50)) =>
                state' = "EXPLORE"]_vars

\* Baseline at frame 1; at frame 2 the marker was seen (smoothed uncertainty
\* 0.5), so nothing was triggered whatever the brightness; frame 3, at
\* brightness 120 and smoothed uncertainty 0.63, triggered.
C25_Witness ==
    /\ frame_count = 3
    /\ history = <<5400, 600, 5400>>
    /\ sensed_brightness = Some(120)
    /\ state = "EXPLORE"
    /\ explore_step = 0
====
